---------------------------- MODULE Spec2Model ----------------------------
(***************************************************************************)
(* Model of hybrid-desktop-app/src-tauri/src/lib.rs: the Tauri command     *)
(* handlers get_system_status, get_detailed_status, start_dashboard_server *)
(* and run_system_command, together with the environment they read (PID    *)
(* files, the process table, the dashboard endpoint on localhost:8085).    *)
(***************************************************************************)
EXTENDS Integers, Sequences, FiniteSets, TLC

VARIABLES
    \* ---- one invocation of get_system_status / get_detailed_status
    pc,             \* position of the running handler ("idle" when none)
    op,             \* handler being served
    flags,          \* the four boolean locals of get_system_status
    status,         \* the serde_json object being built (NoValue before)
    snap,           \* the value get_system_status returned to its caller
    obs,            \* what the probes of this invocation observed
    ret,            \* the handler's return value (NoValue while running)
    \* ---- dashboard bootstrap (start_dashboard_server)
    endpoint,       \* what http://localhost:8085 currently does
    cwd,            \* state of the process's current directory
    dpc,            \* position of start_dashboard_server
    dcall,          \* the invocation in progress, or the last one finished
    dprev,          \* the invocation finished before dcall began
    \* ---- command dispatcher (run_system_command)
    cmd,            \* the last invocation of run_system_command
    launches,       \* external processes that invocation launched
    httpRequests    \* HTTP requests that invocation issued

vars == <<pc, op, flags, status, snap, obs, ret,
          endpoint, cwd, dpc, dcall, dprev,
          cmd, launches, httpRequests>>

statusVars == <<pc, op, flags, status, snap, obs, ret>>
dashVars   == <<endpoint, cwd, dpc, dcall, dprev>>
cmdVars    == <<cmd, launches, httpRequests>>

NoValue == [kind |-> "none"]

-----------------------------------------------------------------------------
(* Bounds of the model *)

\* chrono::Utc::now() is drawn from 0..MaxClock
MaxClock == 1

\* i32::MAX, the range of pid_str.trim().parse::<i32>()
I32_MAX == 2147483647
I32_MIN == (-I32_MAX) - 1

-----------------------------------------------------------------------------
(* Text: a string is a sequence of one-character strings *)

WhiteSpace == {" ", "\t", "\n", "\r"}
DigitChars == {"0", "1", "2", "3", "4", "5", "6", "7", "8", "9"}

DigitVal(c) ==
    CASE c = "0" -> 0 [] c = "1" -> 1 [] c = "2" -> 2 [] c = "3" -> 3
      [] c = "4" -> 4 [] c = "5" -> 5 [] c = "6" -> 6 [] c = "7" -> 7
      [] c = "8" -> 8 [] c = "9" -> 9

DigitChar(d) ==
    CASE d = 0 -> "0" [] d = 1 -> "1" [] d = 2 -> "2" [] d = 3 -> "3"
      [] d = 4 -> "4" [] d = 5 -> "5" [] d = 6 -> "6" [] d = 7 -> "7"
      [] d = 8 -> "8" [] d = 9 -> "9"

RECURSIVE TrimStart(_)
TrimStart(s) ==
    IF s # <<>> /\ s[1] \in WhiteSpace THEN TrimStart(Tail(s)) ELSE s

RECURSIVE TrimEnd(_)
TrimEnd(s) ==
    IF s # <<>> /\ s[Len(s)] \in WhiteSpace
    THEN TrimEnd(SubSeq(s, 1, Len(s) - 1))
    ELSE s

\* faulty variant: the content is parsed untrimmed
TrimNone(s) == s

\* str::trim
Trim(s) == TrimEnd(TrimStart(s))

Ok(v)  == [kind |-> "Ok", value |-> v]
Err(e) == [kind |-> "Err", error |-> e]
IsOk(r) == r.kind = "Ok"

\* checked accumulation of the digits, as core::num's from_str_radix does:
\* positive numbers add, negative numbers subtract, overflow is an error
RECURSIVE AccumulateDigits(_, _, _)
AccumulateDigits(ds, acc, positive) ==
    IF ds = <<>> THEN Ok(acc)
    ELSE LET d == DigitVal(ds[1]) IN
         IF positive
         THEN IF acc > (I32_MAX - d) \div 10
              THEN Err("PosOverflow")
              ELSE AccumulateDigits(Tail(ds), acc * 10 + d, positive)
         ELSE LET x == I32_MIN + d
                  lo == IF x % 10 = 0 THEN x \div 10 ELSE (x \div 10) + 1
              IN IF acc < lo
                 THEN Err("NegOverflow")
                 ELSE AccumulateDigits(Tail(ds), acc * 10 - d, positive)

\* str::parse::<i32>
ParseI32(s) ==
    IF s = <<>> THEN Err("Empty")
    ELSE LET signed == s[1] \in {"+", "-"}
             digits == IF signed THEN Tail(s) ELSE s
         IN IF digits = <<>> THEN Err("InvalidDigit")
            ELSE IF \E i \in 1..Len(digits) : digits[i] \notin DigitChars
                 THEN Err("InvalidDigit")
                 ELSE AccumulateDigits(digits, 0, s[1] # "-")

RECURSIVE NatToString(_)
NatToString(n) ==
    IF n < 10 THEN <<DigitChar(n)>>
    ELSE Append(NatToString(n \div 10), DigitChar(n % 10))

\* faulty variant: the id is formatted zero-padded to two digits
I32ToStringPadded(n) ==
    IF n >= 0 /\ n < 10 THEN <<"0">> \o NatToString(n)
    ELSE IF n >= 0 THEN NatToString(n) ELSE <<"-">> \o NatToString(-n)

\* i32::to_string (I32_MIN itself has no positive counterpart and is written
\* digit by digit from its quotient)
I32ToString(n) ==
    IF n >= 0 THEN NatToString(n)
    ELSE IF n = I32_MIN
         THEN <<"-">> \o NatToString(-((n \div 10) + 1))
                      \o <<DigitChar(10 - (n % 10))>>
         ELSE <<"-">> \o NatToString(-n)

-----------------------------------------------------------------------------
(* The environment: PID files, the process table, external commands *)

Services == {"autonomous", "mcp"}

\* process ids that occur in the model
Pids == {7, 8}

FileAbsent     == [kind |-> "absent", text |-> <<>>]
\* the path exists but read_to_string fails (permissions, a directory,
\* bytes that are not UTF-8)
FileUnreadable == [kind |-> "unreadable", text |-> <<>>]
FileText(t)    == [kind |-> "text", text |-> t]

\* contents a PID file may hold: "7", " 8\n", "+7", "abc", "", "2147483648"
PidTexts ==
    { <<"7">>,
      <<" ", "8", "\n">>,
      <<"+", "7">>,
      <<"a", "b", "c">>,
      <<>>,
      <<"2", "1", "4", "7", "4", "8", "3", "6", "4", "8">> }

FileStates == {FileAbsent, FileUnreadable} \cup {FileText(t) : t \in PidTexts}

\* std::path::Path::exists
FileExists(f) == f.kind # "absent"

\* std::fs::read_to_string
ReadToString(f) == IF f.kind = "text" THEN Ok(f.text) ELSE Err("io")

\* Result<Output> of Command::output(): the command could not be executed,
\* or it ran and left an exit code and its standard output
Output(code, stdout) == Ok([code |-> code, stdout |-> stdout])
SpawnError == Err("spawn")

\* `kill -0 <pid>`: exit 0 exactly when the process exists and is reachable
Kill(args, exec, live) ==
    IF ~exec THEN SpawnError
    ELSE LET p == ParseI32(args[2]) IN
         Output(IF IsOk(p) /\ p.value \in live THEN 0 ELSE 1, <<>>)

\* `pgrep -f health_monitor.sh`: exit 0 when a process matches, 1 when none
PgrepOutcomes == {"exec_fail", "match", "nomatch"}
Pgrep(outcome) ==
    CASE outcome = "exec_fail" -> SpawnError
      [] outcome = "match"     -> Output(0, <<"4", "2", "\n">>)
      [] outcome = "nomatch"   -> Output(1, <<>>)

\* what http://localhost:8085 does with a GET
EndpointStates == {"refused", "timeout", "http200", "http404", "http500"}
HttpResponses  == {"http200", "http404", "http500"}

\* faulty variant: curl run with --fail, which exits 22 on a status >= 400
CurlFailOnHttpError(exec, ep) ==
    IF ~exec THEN SpawnError
    ELSE CASE ep = "refused" -> Output(7, <<>>)
           [] ep = "timeout" -> Output(28, <<>>)
           [] ep = "http200" -> Output(0, <<"<", ">">>)
           [] OTHER          -> Output(22, <<>>)

\* `curl -s --max-time 2 <url>` (no --fail): exit 0 once any HTTP response
\* has been transferred, 7 when the connection is refused, 28 on timeout
Curl(exec, ep) ==
    IF ~exec THEN SpawnError
    ELSE CASE ep = "refused" -> Output(7, <<>>)
           [] ep = "timeout" -> Output(28, <<>>)
           [] OTHER          -> Output(0, <<"<", ">">>)

\* elapsed time `ps` prints for a live process, padded as ps pads it
Etime(pid) ==
    IF pid = 7 THEN <<" ", " ", "0", "1", ":", "2", "3", "\n">>
               ELSE <<"2", "-", "0", "3", ":", "0", "4", ":", "0", "5", "\n">>

\* `ps -p <pid> -o etime=`: prints nothing and exits 1 for a dead process
Ps(args, exec, live) ==
    IF ~exec THEN SpawnError
    ELSE LET p == ParseI32(args[2]) IN
         IF IsOk(p) /\ p.value \in live
         THEN Output(0, Etime(p.value))
         ELSE Output(1, <<>>)

-----------------------------------------------------------------------------
(* serde_json values *)

JBool(b)   == [t |-> "Bool", v |-> b]
JString(x) == [t |-> "String", v |-> x]

\* Value::as_bool
AsBool(v) == IF v.t = "Bool" THEN Ok(v.v) ELSE Err("None")

\* Value::get(key).and_then(|v| v.as_bool())
GetBool(object, key) ==
    IF key \in DOMAIN object THEN AsBool(object[key]) ELSE Err("None")

\* object[key] = value (IndexMut on a JSON object inserts or overwrites)
SetField(object, key, value) ==
    [k \in DOMAIN object \cup {key} |-> IF k = key THEN value ELSE object[k]]

TwoDigits(n) == <<DigitChar(n \div 10), DigitChar(n % 10)>>

\* DateTime<Utc>::to_rfc3339 of the instant t seconds after the epoch
Rfc3339(t) ==
    <<"1", "9", "7", "0", "-", "0", "1", "-", "0", "1", "T">>
      \o TwoDigits(t \div 3600) \o <<":">> \o TwoDigits((t \div 60) % 60)
      \o <<":">> \o TwoDigits(t % 60) \o <<"+", "0", "0", ":", "0", "0">>

-----------------------------------------------------------------------------
(* get_system_status and get_detailed_status *)

\* .output().map(|o| o.status.success()).unwrap_or(false)
SuccessOrFalse(r) == IF IsOk(r) THEN r.value.code = 0 ELSE FALSE

\* the PID-file check of one service: exists() && { read, trim, parse, kill -0 }
PidFileCheck(f, exec, live) ==
    LET no == [running |-> FALSE, args |-> <<>>, kill |-> NoValue] IN
    IF ~FileExists(f) THEN no
    ELSE LET r == ReadToString(f) IN
         IF ~IsOk(r) THEN no
         ELSE LET p == ParseI32(Trim(r.value)) IN
              IF ~IsOk(p) THEN no
              ELSE LET args == <<"-0", I32ToString(p.value)>>
                       k    == Kill(args, exec, live)
                   IN [running |-> SuccessOrFalse(k), args |-> args, kill |-> k]

\* faulty variant: the timestamp is left out of the object
StatusObjectNoTimestamp(fl, now) ==
    [autonomous_running       |-> JBool(fl.autonomous_running),
     mcp_server_running       |-> JBool(fl.mcp_server_running),
     health_monitor_active    |-> JBool(fl.health_monitor_active),
     web_dashboards_available |-> JBool(fl.web_dashboards_available)]

\* the json!({ ... }) object of get_system_status
StatusObject(fl, now) ==
    [autonomous_running       |-> JBool(fl.autonomous_running),
     mcp_server_running       |-> JBool(fl.mcp_server_running),
     health_monitor_active    |-> JBool(fl.health_monitor_active),
     web_dashboards_available |-> JBool(fl.web_dashboards_available),
     last_health_check        |-> JString(Rfc3339(now))]

\* faulty variant: the elapsed time is attached with ps's padding
UptimeOutputUntrimmed(out) == IF IsOk(out) THEN out.value.stdout ELSE <<>>

\* .output().ok().and_then(|o| String::from_utf8(o.stdout).ok())
\*     .unwrap_or_default().trim().to_string()
\* (what ps writes is ASCII, so from_utf8 succeeds on it)
UptimeOutput(out) == Trim(IF IsOk(out) THEN out.value.stdout ELSE <<>>)

RunningField(svc) ==
    IF svc = "autonomous" THEN "autonomous_running" ELSE "mcp_server_running"
\* faulty variant: the two blocks write each other's field
UptimeFieldSwapped(svc) ==
    IF svc = "autonomous" THEN "mcp_uptime" ELSE "autonomous_uptime"
UptimeField(svc) ==
    IF svc = "autonomous" THEN "autonomous_uptime" ELSE "mcp_uptime"

\* the enrichment block of one service: the object after it, and what the
\* block read and ran
Enrich(object, svc, f, exec, live) ==
    LET running == GetBool(object, RunningField(svc))
        skip    == [object |-> object, file |-> NoValue, args |-> <<>>,
                    ps |-> NoValue]
    IN IF ~(IsOk(running) /\ running.value) THEN skip
       ELSE LET r == ReadToString(f) IN
            IF ~IsOk(r) THEN [skip EXCEPT !.file = f]
            ELSE LET p == ParseI32(Trim(r.value)) IN
                 IF ~IsOk(p) THEN [skip EXCEPT !.file = f]
                 ELSE LET args == <<"-p", I32ToString(p.value), "-o",
                                    "etime=">>
                          out  == Ps(args, exec, live)
                      IN [object |-> SetField(object, UptimeField(svc),
                                              JString(UptimeOutput(out))),
                          file |-> f, args |-> args, ps |-> out]

NoFlags ==
    [autonomous_running       |-> FALSE,
     mcp_server_running       |-> FALSE,
     health_monitor_active    |-> FALSE,
     web_dashboards_available |-> FALSE]
NoObs ==
    [probe  |-> [s \in Services |-> NoValue],
     health |-> NoValue,
     web    |-> NoValue,
     enrich |-> [s \in Services |-> NoValue]]

StatusOps == {"get_system_status", "get_detailed_status"}

\* the GUI invokes one of the two status commands
CallStatus(o) ==
    /\ pc = "idle"
    /\ op' = o
    /\ pc' = "probe_autonomous"
    /\ flags' = NoFlags
    /\ status' = NoValue
    /\ snap' = NoValue
    /\ obs' = NoObs
    /\ ret' = NoValue
    /\ UNCHANGED <<dashVars, cmdVars>>

\* what the handler finds when it looks: the PID file of the service, whether
\* the external command can be executed, and the processes alive just then
\* (a file removed between exists() and read_to_string() reads as
\* FileUnreadable: it exists and cannot be read)
ProbePid(svc, next) ==
    \E f \in FileStates, exec \in BOOLEAN, live \in SUBSET Pids :
       LET c == PidFileCheck(f, exec, live) IN
       /\ flags' = [flags EXCEPT ![RunningField(svc)] = c.running]
       /\ obs' = [obs EXCEPT !.probe[svc] =
                     [file |-> f, args |-> c.args, kill |-> c.kill]]
       /\ pc' = next
       /\ UNCHANGED <<op, status, snap, ret, dashVars, cmdVars>>

ProbeAutonomous ==
    /\ pc = "probe_autonomous"
    /\ ProbePid("autonomous", "probe_mcp")

ProbeMcp ==
    /\ pc = "probe_mcp"
    /\ ProbePid("mcp", "probe_health")

ProbeHealth ==
    /\ pc = "probe_health"
    /\ \E outcome \in PgrepOutcomes :
          /\ flags' = [flags EXCEPT !.health_monitor_active =
                            SuccessOrFalse(Pgrep(outcome))]
          /\ obs' = [obs EXCEPT !.health = [outcome |-> outcome]]
    /\ pc' = "probe_web"
    /\ UNCHANGED <<op, status, snap, ret, dashVars, cmdVars>>

ProbeWeb ==
    /\ pc = "probe_web"
    /\ \E exec \in BOOLEAN, ep \in EndpointStates :
          LET out == Curl(exec, ep) IN
          /\ flags' = [flags EXCEPT !.web_dashboards_available =
                            SuccessOrFalse(out)]
          /\ obs' = [obs EXCEPT !.web =
                        [endpoint |-> IF exec THEN ep ELSE "not_asked",
                         curl |-> out]]
    /\ pc' = "build"
    /\ UNCHANGED <<op, status, snap, ret, dashVars, cmdVars>>

\* builds the object and returns Ok(status): to the GUI, or to
\* get_detailed_status, which goes on to enrich it
BuildStatus ==
    /\ pc = "build"
    /\ \E now \in 0..MaxClock :
          LET object == StatusObject(flags, now) IN
          /\ status' = object
          /\ snap' = object
          /\ IF op = "get_system_status"
             THEN ret' = Ok(object) /\ pc' = "idle"
             ELSE ret' = ret /\ pc' = "enrich_autonomous"
    /\ UNCHANGED <<op, flags, obs, dashVars, cmdVars>>

EnrichStep(svc, next) ==
    \E f \in FileStates, exec \in BOOLEAN, live \in SUBSET Pids :
       LET e == Enrich(status, svc, f, exec, live) IN
       /\ status' = e.object
       /\ obs' = [obs EXCEPT !.enrich[svc] =
                     [file |-> e.file, args |-> e.args, ps |-> e.ps]]
       /\ pc' = next
       /\ UNCHANGED <<op, flags, snap, ret, dashVars, cmdVars>>

EnrichAutonomous ==
    /\ pc = "enrich_autonomous"
    /\ EnrichStep("autonomous", "enrich_mcp")

EnrichMcp ==
    /\ pc = "enrich_mcp"
    /\ EnrichStep("mcp", "return_detailed")

ReturnDetailed ==
    /\ pc = "return_detailed"
    /\ ret' = Ok(status)
    /\ pc' = "idle"
    /\ UNCHANGED <<op, flags, status, snap, obs, dashVars, cmdVars>>

StatusInit ==
    /\ pc = "idle"
    /\ op = "none"
    /\ flags = NoFlags
    /\ status = NoValue
    /\ snap = NoValue
    /\ obs = NoObs
    /\ ret = NoValue

-----------------------------------------------------------------------------
(* start_dashboard_server *)

\* the process's current directory: "ok" has a parent, "root" is "/" (no
\* parent), "gone" makes env::current_dir() fail
CwdStates == {"ok", "root", "gone"}

\* env::current_dir().map_err(..)?.parent().ok_or(..)?.to_path_buf()
ProjectRoot(dir) ==
    CASE dir = "gone" -> Err("Failed to get current directory")
      [] dir = "root" -> Err("Failed to get project root")
      [] OTHER        -> Ok("project_root")

AlreadyRunning == Ok("Dashboard server is already running")
StartedOk      == Ok("Dashboard server started successfully")
NotResponding  ==
    Ok("Dashboard server may have started but is not responding yet")
SpawnFailed    == Err("Failed to start dashboard server")

\* faulty variant: success is reported without looking at the second check
VerifyMessageOptimistic(out) == StartedOk

\* the message after the grace period, from the verifying curl
VerifyMessage(out) == IF SuccessOrFalse(out) THEN StartedOk ELSE NotResponding

NewCall(ep) ==
    [up     |-> ep \in HttpResponses, \* the endpoint answers, and has since entry
     events |-> <<>>,                 \* external steps taken, in order
     probe1 |-> "none",               \* Verdict of the first check, once run
     spawn  |-> "none",
     probe2 |-> "none",
     spawns |-> 0,                    \* processes this invocation spawned
     result |-> NoValue]

\* what a curl check came to: it could not be run, it exited 0, or it failed
Verdict(out) ==
    IF ~IsOk(out) THEN "no_curl"
    ELSE IF out.value.code = 0 THEN "ok" ELSE "fail"

CallDashboard ==
    /\ dpc = "idle"
    /\ dprev' = dcall
    /\ dcall' = NewCall(endpoint)
    /\ dpc' = "project_root"
    /\ UNCHANGED <<endpoint, cwd, statusVars, cmdVars>>

ResolveProjectRoot ==
    /\ dpc = "project_root"
    /\ LET root == ProjectRoot(cwd) IN
       IF IsOk(root)
       THEN dpc' = "check" /\ dcall' = dcall
       ELSE dpc' = "idle" /\ dcall' = [dcall EXCEPT !.result = root]
    /\ UNCHANGED <<endpoint, cwd, dprev, statusVars, cmdVars>>

\* faulty variant: the first check is made but does not return early
CheckRunningNoReturn ==
    /\ dpc = "check"
    /\ \E exec \in BOOLEAN :
          dcall' = [dcall EXCEPT !.events = Append(@, "probe"),
                                 !.probe1 = Verdict(Curl(exec, endpoint))]
    /\ dpc' = "spawn"
    /\ UNCHANGED <<endpoint, cwd, dprev, statusVars, cmdVars>>

CheckRunning ==
    /\ dpc = "check"
    /\ \E exec \in BOOLEAN :
          LET out == Curl(exec, endpoint)
              c   == [dcall EXCEPT !.events = Append(@, "probe"),
                                   !.probe1 = Verdict(out)]
          IN IF SuccessOrFalse(out)
             THEN dpc' = "idle" /\ dcall' = [c EXCEPT !.result = AlreadyRunning]
             ELSE dpc' = "spawn" /\ dcall' = c
    /\ UNCHANGED <<endpoint, cwd, dprev, statusVars, cmdVars>>

\* Command::new("python3")...spawn(): Ok(child) or Err(e)
SpawnDashboard ==
    /\ dpc = "spawn"
    /\ \E started \in BOOLEAN :
          IF started
          THEN /\ dpc' = "sleep"
               /\ dcall' = [dcall EXCEPT !.events = Append(@, "spawn"),
                                         !.spawn = "ok",
                                         !.spawns = @ + 1]
          ELSE /\ dpc' = "idle"
               /\ dcall' = [dcall EXCEPT !.events = Append(@, "spawn"),
                                         !.spawn = "fail",
                                         !.result = SpawnFailed]
    /\ UNCHANGED <<endpoint, cwd, dprev, statusVars, cmdVars>>

\* std::thread::sleep(Duration::from_secs(2))
GracePeriod ==
    /\ dpc = "sleep"
    /\ dcall' = [dcall EXCEPT !.events = Append(@, "sleep")]
    /\ dpc' = "verify"
    /\ UNCHANGED <<endpoint, cwd, dprev, statusVars, cmdVars>>

VerifyStarted ==
    /\ dpc = "verify"
    /\ \E exec \in BOOLEAN :
          LET out == Curl(exec, endpoint) IN
          dcall' = [dcall EXCEPT !.events = Append(@, "probe"),
                                 !.probe2 = Verdict(out),
                                 !.result = VerifyMessage(out)]
    /\ dpc' = "idle"
    /\ UNCHANGED <<endpoint, cwd, dprev, statusVars, cmdVars>>

\* the dashboard server (spawned here or started elsewhere) comes up, goes
\* down or changes what it answers, at any moment
EndpointChange(e) ==
    /\ endpoint # e
    /\ endpoint' = e
    /\ dcall' = IF dpc = "idle" THEN dcall
                ELSE [dcall EXCEPT !.up = @ /\ e \in HttpResponses]
    /\ UNCHANGED <<cwd, dpc, dprev, statusVars, cmdVars>>

-----------------------------------------------------------------------------
(* run_system_command: the dispatcher over the closed set of identifiers *)

ShellCommands ==
    {"start_autonomous", "stop_autonomous", "restart_mcp", "restart_all",
     "run_health_check", "list_processes", "check_logs", "clean_temp",
     "update_system"}
HttpCommands ==
    {"analyze_project", "process_todos", "execute_critical", "generate_report"}
\* identifiers a caller may pass, two of them outside the closed set
CommandIds == ShellCommands \cup HttpCommands \cup {"bogus", ""}

UnknownCommand ==
    Err([tag |-> "UnknownCommand", error |-> "Unknown command"])

\* outcome of the external action: it could not be launched, or it ran and
\* left an exit code and its two captured streams
LaunchOutcomes ==
    {[launched |-> FALSE, code |-> 0, stdout |-> "", stderr |-> ""]}
      \cup [launched : {TRUE}, code : {0, 1, 2}, stdout : {"", "out"},
            stderr : {"", "err"}]

\* faulty variant: a non-zero exit keeps stdout only
ClassifyDropsStderr(o) ==
    IF ~o.launched THEN Err([tag |-> "Failure", error |-> "launch error"])
    ELSE IF o.code = 0
         THEN Ok([tag |-> "Success", stdout |-> o.stdout, stderr |-> ""])
         ELSE Ok([tag |-> "Warning", stdout |-> o.stdout, stderr |-> ""])

\* Success / Warning / Failure
Classify(o) ==
    IF ~o.launched THEN Err([tag |-> "Failure", error |-> "launch error"])
    ELSE IF o.code = 0
         THEN Ok([tag |-> "Success", stdout |-> o.stdout, stderr |-> ""])
         ELSE Ok([tag |-> "Warning", stdout |-> o.stdout, stderr |-> o.stderr])

\* faulty variant: an identifier outside the table falls through to a shell
DispatchFallsThrough(id, o) ==
    IF id \in HttpCommands
    THEN [result |-> Classify(o), launches |-> 0, http |-> 1]
    ELSE [result |-> Classify(o), launches |-> 1, http |-> 0]

\* what one invocation does: its result, and the external actions it took
Dispatch(id, o) ==
    IF id \in ShellCommands
    THEN [result |-> Classify(o), launches |-> 1, http |-> 0]
    ELSE IF id \in HttpCommands
         THEN [result |-> Classify(o), launches |-> 0, http |-> 1]
         ELSE [result |-> UnknownCommand, launches |-> 0, http |-> 0]

RunSystemCommand(id, o) ==
    LET d == Dispatch(id, o) IN
    /\ cmd' = [id |-> id,
               outcome |-> IF d.launches + d.http = 0 THEN NoValue ELSE o,
               result |-> d.result]
    /\ launches' = d.launches
    /\ httpRequests' = d.http
    /\ UNCHANGED <<statusVars, dashVars>>

DashIdle ==
    /\ cwd = "ok"
    /\ dpc = "idle"
    /\ dcall = NoValue
    /\ dprev = NoValue

CmdIdle ==
    /\ cmd = NoValue
    /\ launches = 0
    /\ httpRequests = 0

Init ==
    /\ StatusInit
    /\ endpoint = "refused"
    /\ DashIdle
    /\ CmdIdle

Next ==
    \/ \E o \in StatusOps : CallStatus(o)
    \/ ProbeAutonomous
    \/ ProbeMcp
    \/ ProbeHealth
    \/ ProbeWeb
    \/ BuildStatus
    \/ EnrichAutonomous
    \/ EnrichMcp
    \/ ReturnDetailed

Spec == Init /\ [][Next]_vars

DashInit ==
    /\ StatusInit
    /\ endpoint \in EndpointStates
    /\ cwd \in CwdStates
    /\ dpc = "idle"
    /\ dcall = NoValue
    /\ dprev = NoValue
    /\ CmdIdle

DashNext ==
    \/ CallDashboard
    \/ ResolveProjectRoot
    \/ CheckRunning
    \/ SpawnDashboard
    \/ GracePeriod
    \/ VerifyStarted
    \/ \E e \in EndpointStates : EndpointChange(e)

SpecDash == DashInit /\ [][DashNext]_vars

CmdNext ==
    \E id \in CommandIds, o \in LaunchOutcomes : RunSystemCommand(id, o)

SpecCmd == Init /\ [][CmdNext]_vars

-----------------------------------------------------------------------------
(* Properties *)

ReturnedStatus   == pc = "idle" /\ op = "get_system_status" /\ ret # NoValue
ReturnedDetailed == pc = "idle" /\ op = "get_detailed_status" /\ ret # NoValue

BoolFields ==
    {"autonomous_running", "mcp_server_running", "health_monitor_active",
     "web_dashboards_available"}
UptimeFields == {"autonomous_uptime", "mcp_uptime"}
RunningKey ==
    [autonomous |-> "autonomous_running", mcp |-> "mcp_server_running"]
UptimeKey == [autonomous |-> "autonomous_uptime", mcp |-> "mcp_uptime"]

\* YYYY-MM-DDThh:mm:ss+hh:mm
LooksLikeRfc3339(x) ==
    /\ Len(x) = 25
    /\ \A i \in 1..25 :
          CASE i \in {5, 8}   -> x[i] = "-"
            [] i = 11         -> x[i] = "T"
            [] i \in {14, 17, 23} -> x[i] = ":"
            [] i = 20         -> x[i] \in {"+", "-"}
            [] OTHER          -> x[i] \in DigitChars

\* the decimal process id a PID file holds, <<>> when it holds none
PidIn(f) ==
    IF f.kind # "text" THEN <<>>
    ELSE CASE f.text = <<"7">>            -> <<"7">>
           [] f.text = <<"+", "7">>       -> <<"7">>
           [] f.text = <<" ", "8", "\n">> -> <<"8">>
           [] OTHER                       -> <<>>

\* C1: whatever the four probes come to, get_system_status returns Ok with an
\* object of exactly the four boolean fields and the timestamp field
\* last_health_check, and nothing else.
C1_StatusShape ==
    ReturnedStatus =>
       /\ ret.kind = "Ok"
       /\ DOMAIN ret.value = BoolFields \cup {"last_health_check"}
       /\ \A k \in BoolFields :
             ret.value[k].t = "Bool" /\ ret.value[k].v \in BOOLEAN
       /\ ret.value["last_health_check"].t = "String"
       /\ LooksLikeRfc3339(ret.value["last_health_check"].v)

\* a call in which none of the four external commands could be executed
C1_Witness ==
    /\ ReturnedStatus
    /\ obs.probe["autonomous"].kill = SpawnError
    /\ obs.probe["mcp"].kill = SpawnError
    /\ obs.health.outcome = "exec_fail"
    /\ obs.web.endpoint = "not_asked"

\* the PID file held a process id and `kill -0` on it ran and exited 0
ExpectRunning(o) ==
    /\ PidIn(o.file) # <<>>
    /\ IsOk(o.kill)
    /\ o.kill.value.code = 0

\* C2: a PID-file service is reported running exactly when its PID file
\* exists, is readable, holds (after trimming) an integer process id, and
\* the zero-signal check on that id ran and succeeded; otherwise it is
\* reported not running, and no error is returned.
C2_PidFileField ==
    (op \in StatusOps /\ snap # NoValue) =>
       /\ \A svc \in Services :
             LET o == obs.probe[svc] IN
             /\ o.kill # NoValue <=> PidIn(o.file) # <<>>
             /\ o.kill # NoValue => o.args = <<"-0", PidIn(o.file)>>
             /\ snap[RunningKey[svc]] = JBool(ExpectRunning(o))
       /\ ret # NoValue => ret.kind = "Ok"
       /\ ReturnedStatus => ret.value = snap

\* one service alive behind a padded PID file, the other with "abc" in it
C2_Witness ==
    /\ ReturnedStatus
    /\ obs.probe["autonomous"].file = FileText(<<" ", "8", "\n">>)
    /\ ret.value["autonomous_running"] = JBool(TRUE)
    /\ obs.probe["mcp"].file = FileText(<<"a", "b", "c">>)
    /\ ret.value["mcp_server_running"] = JBool(FALSE)

\* C3 as stated: web_dashboards_available is true exactly when the GET got
\* a 2xx response; a non-2xx response (404, 500) gives false.
C3_Only2xx ==
    ReturnedStatus =>
       ret.value["web_dashboards_available"]
          = JBool(obs.web.endpoint = "http200")

\* C3 amended: web_dashboards_available is true exactly when curl ran and the
\* GET got an HTTP response of any status (200, 404, 500) within the timeout;
\* a timeout, a refused connection or a curl that cannot be run give false.
C3_AnyResponse ==
    ReturnedStatus =>
       ret.value["web_dashboards_available"]
          = JBool(obs.web.endpoint \in {"http200", "http404", "http500"})

\* the endpoint answered 404 and the dashboards are reported available
C3_Witness ==
    /\ ReturnedStatus
    /\ obs.web.endpoint = "http404"
    /\ ret.value["web_dashboards_available"] = JBool(TRUE)

DashDone == dpc = "idle" /\ dcall # NoValue
AnsweredUp(c) == c # NoValue /\ c.up

\* C4 as stated: when the endpoint is responding, start_dashboard_server
\* returns "already running" and spawns nothing, twice in a row as well.
C4_UpMeansAlreadyRunning ==
    (DashDone /\ dcall.up) =>
       /\ dcall.result = AlreadyRunning
       /\ dcall.spawns = 0
       /\ AnsweredUp(dprev) =>
             dprev.result = dcall.result /\ dprev.spawns + dcall.spawns = 0

\* C4 amended: when the project root resolves and the first curl check
\* succeeds (as it does whenever the endpoint answers and curl can be run),
\* start_dashboard_server returns "already running" having spawned nothing,
\* and two such calls in a row return the same message with no process
\* spawned in total; when the project root does not resolve it returns an
\* error without checking the endpoint or spawning anything.
C4_AlreadyRunning ==
    DashDone =>
       /\ dcall.probe1 = "ok" =>
             /\ dcall.result = AlreadyRunning
             /\ dcall.spawns = 0
             /\ dcall.events = <<"probe">>
       /\ (dcall.up /\ cwd = "ok" /\ dcall.probe1 # "no_curl") =>
             dcall.probe1 = "ok"
       /\ (dprev # NoValue /\ dprev.probe1 = "ok" /\ dcall.probe1 = "ok") =>
             /\ dprev.result = dcall.result
             /\ dprev.spawns + dcall.spawns = 0
       /\ cwd # "ok" =>
             /\ dcall.result.kind = "Err"
             /\ dcall.events = <<>>
             /\ dcall.spawns = 0

\* two calls in a row against an answering endpoint
C4_Witness ==
    /\ DashDone
    /\ dcall.up
    /\ dcall.result = AlreadyRunning
    /\ AnsweredUp(dprev)
    /\ dprev.result = AlreadyRunning

\* C5: what get_detailed_status returns holds every field of the snapshot it
\* was built from, unchanged, and holds autonomous_uptime (mcp_uptime) only
\* if autonomous_running (mcp_server_running) is true in it.
C5_Superset ==
    ReturnedDetailed =>
       /\ ret.kind = "Ok"
       /\ \A k \in DOMAIN snap :
             k \in DOMAIN ret.value /\ ret.value[k] = snap[k]
       /\ DOMAIN ret.value \subseteq DOMAIN snap \cup UptimeFields
       /\ \A svc \in Services :
             UptimeKey[svc] \in DOMAIN ret.value =>
                ret.value[RunningKey[svc]] = JBool(TRUE)

\* one service running with its uptime, the other not running
C5_Witness ==
    /\ ReturnedDetailed
    /\ "autonomous_uptime" \in DOMAIN ret.value
    /\ ret.value["mcp_server_running"] = JBool(FALSE)
    /\ "mcp_uptime" \notin DOMAIN ret.value

\* C6 as stated: an uptime field is attached only when the elapsed time was
\* resolved, never with an empty value.
C6_NoEmptyUptime ==
    ReturnedDetailed =>
       \A svc \in Services :
          UptimeKey[svc] \in DOMAIN ret.value =>
             ret.value[UptimeKey[svc]].v # <<>>

\* the elapsed time `ps` reports, without its padding
ElapsedOf(pidText) ==
    IF pidText = <<"7">> THEN <<"0", "1", ":", "2", "3">>
    ELSE <<"2", "-", "0", "3", ":", "0", "4", ":", "0", "5">>

\* C6 amended: the uptime field of a running PID-file service is attached
\* exactly when the PID file, read again, holds a process id; its value is
\* the trimmed elapsed time, and is the empty string when ps cannot be
\* executed, fails or prints nothing.
C6_UptimeAttached ==
    ReturnedDetailed =>
       \A svc \in Services :
          LET e == obs.enrich[svc]
              k == UptimeKey[svc]
          IN /\ k \in DOMAIN ret.value <=>
                   /\ snap[RunningKey[svc]] = JBool(TRUE)
                   /\ e.file # NoValue
                   /\ PidIn(e.file) # <<>>
             /\ k \in DOMAIN ret.value =>
                   ret.value[k] =
                      JString(IF IsOk(e.ps) /\ e.ps.value.code = 0
                              THEN ElapsedOf(PidIn(e.file))
                              ELSE <<>>)

\* ps could not be executed, and the field is there with an empty value
C6_Witness ==
    /\ ReturnedDetailed
    /\ obs.enrich["autonomous"].ps = SpawnError
    /\ "autonomous_uptime" \in DOMAIN ret.value
    /\ ret.value["autonomous_uptime"] = JString(<<>>)

\* C9: after a failed first check, one invocation spawns once, waits, checks
\* once more, in that order; it answers "started successfully" exactly when
\* the second check succeeds and "may have started" otherwise, and it
\* returns an error, without waiting or checking again, exactly when the
\* spawn fails.
C9_Bootstrap ==
    /\ (dcall # NoValue) =>
          \E n \in 0..4 :
             dcall.events = SubSeq(<<"probe", "spawn", "sleep", "probe">>, 1, n)
    /\ (DashDone /\ dcall.probe1 \in {"fail", "no_curl"}) =>
          /\ dcall.spawn \in {"ok", "fail"}
          /\ dcall.spawn = "ok" =>
                /\ dcall.events = <<"probe", "spawn", "sleep", "probe">>
                /\ dcall.spawns = 1
                /\ dcall.result = StartedOk <=> dcall.probe2 = "ok"
                /\ dcall.probe2 # "ok" => dcall.result = NotResponding
          /\ dcall.spawn = "fail" =>
                /\ dcall.events = <<"probe", "spawn">>
                /\ dcall.spawns = 0
                /\ dcall.probe2 = "none"
          /\ dcall.result.kind = "Err" <=> dcall.spawn = "fail"

\* the endpoint was down, the spawn worked and the second check succeeded
C9_Witness ==
    /\ DashDone
    /\ dcall.probe1 = "fail"
    /\ dcall.spawn = "ok"
    /\ dcall.probe2 = "ok"
    /\ dcall.result = StartedOk

\* C10 as stated: the process whose elapsed time is reported is the process
\* whose liveness check made the service's boolean true, even when the PID
\* file is rewritten between the two reads.
C10_SamePid ==
    ReturnedDetailed =>
       \A svc \in Services :
          UptimeKey[svc] \in DOMAIN ret.value =>
             obs.enrich[svc].args[2] = obs.probe[svc].args[2]

\* C10 amended: the process whose elapsed time is reported is the one named
\* by the PID file as read at enrichment; it is the process of the liveness
\* check whenever the file holds the same content at both reads.
C10_PidOfSecondRead ==
    ReturnedDetailed =>
       \A svc \in Services :
          UptimeKey[svc] \in DOMAIN ret.value =>
             LET e == obs.enrich[svc]
                 p == obs.probe[svc]
             IN /\ e.args = <<"-p", PidIn(e.file), "-o", "etime=">>
                /\ p.args = <<"-0", PidIn(p.file)>>
                /\ e.file = p.file => e.args[2] = p.args[2]

\* the PID file named process 7 at the liveness check and 8 at enrichment
C10_Witness ==
    /\ ReturnedDetailed
    /\ "autonomous_uptime" \in DOMAIN ret.value
    /\ obs.probe["autonomous"].args[2] = <<"7">>
    /\ obs.enrich["autonomous"].args[2] = <<"8">>

\* the closed set of command identifiers
ClosedSet ==
    {"start_autonomous", "stop_autonomous", "restart_mcp", "restart_all",
     "run_health_check", "list_processes", "check_logs", "clean_temp",
     "update_system", "analyze_project", "process_todos", "execute_critical",
     "generate_report"}

\* C7: an identifier outside the closed set always gets the unknown-command
\* error, and no external process is launched and no HTTP request issued.
C7_UnknownCommand ==
    (cmd # NoValue /\ cmd.id \notin ClosedSet) =>
       /\ cmd.result.kind = "Err"
       /\ cmd.result.error.tag = "UnknownCommand"
       /\ launches = 0
       /\ httpRequests = 0

C7_Witness == cmd # NoValue /\ cmd.id = "bogus"

\* C8: a shell command's outcome is classified three ways: launched and exit
\* 0 is Success with the captured stdout; launched and exit non-zero is a
\* Warning (not an error) with stdout and stderr; not launched is a Failure
\* error with the launch error.
C8_ThreeWay ==
    (cmd # NoValue /\ cmd.id \in ClosedSet /\ launches = 1) =>
       LET o == cmd.outcome
           r == cmd.result
       IN /\ (o.launched /\ o.code = 0) =>
                /\ r.kind = "Ok"
                /\ r.value.tag = "Success"
                /\ r.value.stdout = o.stdout
          /\ (o.launched /\ o.code # 0) =>
                /\ r.kind = "Ok"
                /\ r.value.tag = "Warning"
                /\ r.value.stdout = o.stdout
                /\ r.value.stderr = o.stderr
          /\ ~o.launched =>
                /\ r.kind = "Err"
                /\ r.error.tag = "Failure"
                /\ r.error.error = "launch error"

\* start_autonomous exited 1 with text on both streams
C8_Witness ==
    /\ cmd # NoValue
    /\ cmd.id = "start_autonomous"
    /\ cmd.outcome.launched
    /\ cmd.outcome.code = 1
    /\ cmd.outcome.stderr = "err"
    /\ cmd.result.kind = "Ok"

=============================================================================
